---- MODULE Spec2Model ----
(***************************************************************************)
(* A model of the PDF question-answering server (src/server/index.js):     *)
(* the text normalizer cleanText, the chunker chunkText, the embedding     *)
(* client embedTexts, deleteSessionVectors and the upload / ask /          *)
(* clear-session request handlers, run against a vector index, an          *)
(* embedding service and a generation service whose calls may fail.        *)
(*                                                                         *)
(* A text is a sequence of UTF-16 code units (what a JavaScript string     *)
(* is), so lengths, slices and the regular expressions of cleanText act    *)
(* on the same units as the code.                                          *)
(***************************************************************************)
EXTENDS Integers, Sequences, FiniteSets, TLC

VARIABLES
    store,   \* the vector index: record id -> [values, metadata]
    rq,      \* the requests being served: slot -> the handler's state
    tmp,     \* the uploaded temporary files that exist (by request number)
    clock,   \* the number of requests received so far
    faults,  \* the number of remote calls that have failed so far
    hist,    \* per session, the files ingested with success, in order
    env,     \* the run's environment: [inflight, docs, requests, faults]
    tin,     \* text layer: the input under test, [text, maxLen]
    tout     \* text layer: what the function applied to tin returned

vars == <<store, rq, tmp, clock, faults, hist, env, tin, tout>>
pipeVars == <<store, rq, tmp, clock, faults, hist, env>>
textVars == <<tin, tout>>

(***************************************************************************)
(* Strings                                                                 *)
(***************************************************************************)

\* The concatenation of parts[lo..hi], a sequence of sequences.
RECURSIVE Flatten(_, _, _)
Flatten(parts, lo, hi) ==
    IF lo > hi THEN <<>>
    ELSE IF lo = hi THEN parts[lo]
    ELSE LET mid == (lo + hi) \div 2
         IN  Flatten(parts, lo, mid) \o Flatten(parts, mid + 1, hi)

\* s repeated n times.
Rep(s, n) == [i \in 1..(n * Len(s)) |-> s[((i - 1) % Len(s)) + 1]]

\* pat occurs in s at position i (1-based).
MatchAt(s, pat, i) ==
    /\ i >= 1
    /\ i + Len(pat) - 1 <= Len(s)
    /\ \A k \in 1..Len(pat) : s[i + k - 1] = pat[k]

\* Position i lies inside an occurrence of pat that starts before i.
Covered(s, pat, i) ==
    \E k \in 1..(Len(pat) - 1) : MatchAt(s, pat, i - k)

\* String.prototype.replace(/pat/g, rep) for a literal pattern. The global
\* scan replaces the non-overlapping occurrences from the left; no pattern
\* of cleanText has a proper prefix that is also its suffix, so occurrences
\* never overlap and every occurrence is replaced.
ReplaceAll(s, pat, rep) ==
    IF \A i \in 1..Len(s) : ~MatchAt(s, pat, i) THEN s
    ELSE LET parts == [i \in 1..Len(s) |->
                          IF MatchAt(s, pat, i) THEN rep
                          ELSE IF Covered(s, pat, i) THEN <<>>
                          ELSE <<s[i]>>]
         IN  Flatten(parts, 1, Len(s))

\* String.prototype.replace(/[class]/g, ' '): each unit of the class becomes
\* one space (32).
ReplaceClass(s, InClass(_)) ==
    [i \in 1..Len(s) |-> IF InClass(s[i]) THEN 32 ELSE s[i]]

\* [\u0000-\u001F\u007F-\u009F]
IsControl(c) == (c >= 0 /\ c <= 31) \/ (c >= 127 /\ c <= 159)
\* [\u2000-\u206F]
IsGeneralPunctuation(c) == c >= 8192 /\ c <= 8303
\* [\u2070-\u209F]
IsSuperSubscript(c) == c >= 8304 /\ c <= 8351
\* [\u20A0-\u20CF]
IsCurrency(c) == c >= 8352 /\ c <= 8399
\* [\u2100-\u214F]
IsLetterlike(c) == c >= 8448 /\ c <= 8527

\* The regular expression class \s, which is also what trim() strips:
\* TAB LF VT FF CR SPACE NBSP U+1680 U+2000-U+200A U+2028 U+2029 U+202F
\* U+205F U+3000 U+FEFF.
IsSpace(c) ==
    \/ c \in {9, 10, 11, 12, 13, 32, 160, 5760, 8232, 8233, 8239, 8287, 12288, 65279}
    \/ (c >= 8192 /\ c <= 8202)

\* .replace(/\s+/g, ' '): every maximal run of white space becomes one space.
CollapseSpace(s) ==
    LET marked == [i \in 1..Len(s) |->
                      IF ~IsSpace(s[i]) THEN s[i]
                      ELSE IF i = 1 \/ ~IsSpace(s[i - 1]) THEN 32
                      ELSE -1]
    IN  SelectSeq(marked, LAMBDA c : c # -1)

\* .trim() of a string whose white space runs are single spaces already.
Trim(s) ==
    LET n == Len(s)
        first == IF n > 0 /\ IsSpace(s[1]) THEN 2 ELSE 1
        last == IF n > 0 /\ IsSpace(s[n]) THEN n - 1 ELSE n
    IN  SubSeq(s, first, last)

\* The chain of replacements of cleanText, before the length checks.
\* The patterns, in code units: U+00C2 U+00B0; U+00E2 U+02C6 U+0020 (its last
\* unit is a plain space); U+00E2 U+02C6 U+2020; U+00CF U+20AC;
\* U+00E2 U+02C6 U+0161.
CleanChain(text) ==
    LET r1 == ReplaceAll(text, <<194, 176>>,
                         <<32, 100, 101, 103, 114, 101, 101, 115, 32>>)   \* ' degrees '
        r2 == ReplaceAll(r1, <<226, 710, 32>>,
                         <<97, 110, 103, 108, 101, 32>>)                  \* 'angle '
        r3 == ReplaceAll(r2, <<226, 710, 8224>>,
                         <<116, 114, 105, 97, 110, 103, 108, 101, 32>>)   \* 'triangle '
        r4 == ReplaceAll(r3, <<207, 8364>>, <<112, 105, 32>>)             \* 'pi '
        r5 == ReplaceAll(r4, <<226, 710, 353>>,
                         <<115, 113, 114, 116, 32>>)                      \* 'sqrt '
        r6 == ReplaceClass(r5, IsControl)
        r7 == ReplaceClass(r6, IsGeneralPunctuation)
        r8 == ReplaceClass(r7, IsSuperSubscript)
        r9 == ReplaceClass(r8, IsCurrency)
        r10 == ReplaceClass(r9, IsLetterlike)
    IN  Trim(CollapseSpace(r10))

\* The shortest result cleanText keeps, and the length it cuts a result to.
MinCleanLen == 10
MaxCleanLen == 8000

\* cleanText(text): '' for an empty input and for a result shorter than 10
\* units, the first 8000 units of a longer result.
cleanText(text) ==
    IF text = <<>> THEN <<>>
    ELSE LET cleaned == CleanChain(text)
         IN  IF Len(cleaned) < MinCleanLen THEN <<>>
             ELSE IF Len(cleaned) > MaxCleanLen THEN SubSeq(cleaned, 1, MaxCleanLen)
             ELSE cleaned

\* text.slice(from, to) for 0 <= from <= to, with to cut to the length.
Slice(s, from, to) == SubSeq(s, from + 1, IF to < Len(s) THEN to ELSE Len(s))

\* The overlap of two consecutive windows of chunkText, and the maximum chunk
\* length the upload handler passes.
ChunkOverlap == 200
UploadMaxLen == 1000

\* One turn of the while loop of chunkText, on its state [i, chunks]; windows
\* counts the turns taken (it is not a variable of the code).
chunkStep(text, maxLen, st) ==
    LET chunk == Slice(text, st.i, st.i + maxLen)
        cleanedChunk == cleanText(chunk)
    IN  [i |-> st.i + (maxLen - ChunkOverlap),
         chunks |-> IF cleanedChunk # <<>> THEN Append(st.chunks, cleanedChunk)
                    ELSE st.chunks,
         windows |-> st.windows + 1]

RECURSIVE chunkLoop(_, _, _)
chunkLoop(text, maxLen, st) ==
    IF st.i < Len(text) THEN chunkLoop(text, maxLen, chunkStep(text, maxLen, st))
    ELSE st

\* chunkText(text, maxLen), defined for maxLen > 200 (the loop does not end
\* otherwise).
chunkText(text, maxLen) ==
    chunkLoop(text, maxLen, [i |-> 0, chunks |-> <<>>, windows |-> 0]).chunks

(***************************************************************************)
(* Documents, sessions and the remote services                             *)
(***************************************************************************)

\* The number of requests a run receives, and of remote calls that fail in
\* it: on the small documents, and on the document of 101 chunks.
MaxRequests == 3
MaxFaults == 1
BatchRequests == 1
BatchFaults == 1
EmbedRequests == 1
EmbedFaults == 2
ConcRequests == 2
ConcFaults == 1
ClearRequests == 2
ClearFaults == 1

\* The session ids clients send; the second one ends like a record id.
Sessions == {"s", "s_1"}
NoSession == ""

\* The ten units "<tag>chunk-ddd" (ddd the decimal k).
Word(tag, k) ==
    <<tag, 99, 104, 117, 110, 107, 45,
      48 + (k \div 100), 48 + ((k \div 10) % 10), 48 + (k % 10)>>

\* A text of n windows of chunkText(_, 1000): spaces, with Word(tag, k) at
\* offset 800k + 300, inside window k only.
SparseText(tag, n) ==
    [p \in 1..(800 * (n - 1) + 400) |->
        LET k == (p - 1) \div 800
            o == (p - 1) % 800
        IN  IF o >= 300 /\ o <= 309 THEN Word(tag, k)[o - 299] ELSE 32]

\* The uploaded files, by original name. No file is req.file undefined.
NoFile == "(no file)"
SmallDocs == {"empty.pdf", "short.pdf", "corrupt.pdf", "one.pdf", "three.pdf"}
BigDocs == {"big.pdf"}
MidDocs == {"eleven.pdf"}
DocNames == SmallDocs \cup BigDocs \cup MidDocs

\* pdfParse(data) throws on this one.
ParseFails(file) == file = "corrupt.pdf"

\* pdfData.text || "" of each file: white space only; three letters; one,
\* three, 101 and eleven chunks of text.
DocText ==
    [file \in DocNames |->
        CASE file = "empty.pdf" -> <<32, 10, 32>>
          [] file = "short.pdf" -> <<97, 98, 99>>
          [] file = "corrupt.pdf" -> <<>>
          [] file = "one.pdf" -> SparseText(65, 1)
          [] file = "three.pdf" -> SparseText(66, 3)
          [] file = "big.pdf" -> SparseText(67, 101)
          [] file = "eleven.pdf" -> SparseText(68, 11)]

\* text.trim() is empty: the text is white space only.
IsBlank(text) == \A i \in 1..Len(text) : IsSpace(text[i])

\* chunkText(text, 1000) of each file's text.
ChunksOf == [file \in DocNames |-> chunkText(DocText[file], UploadMaxLen)]

\* The questions asked: none, one too short to survive cleanText, and
\* "what is pi?".
Questions ==
    {<<>>, <<104, 105>>, <<119, 104, 97, 116, 32, 105, 115, 32, 112, 105, 63>>}

\* process.env.SERVER_API_KEY || "dev_token", as code units.
SERVER_API_KEY == <<100, 101, 118, 95, 116, 111, 107, 101, 110>>

\* A header that is not sent (undefined, falsy like the empty string).
NoKey == <<>>

\* "Bearer " and "wrong", as code units.
BearerPrefix == <<66, 101, 97, 114, 101, 114, 32>>
WrongKey == <<119, 114, 111, 110, 103>>

\* The x-api-key and authorization headers of a request. Those sent: none;
\* the server's key, another key, and the server's key after "Bearer ", as
\* x-api-key; the server's key with and without "Bearer ", and "Bearer "
\* alone, as authorization; another x-api-key beside a good authorization.
Headers(xApiKey, authorization) == [xApiKey |-> xApiKey, authorization |-> authorization]

Keys ==
    {Headers(NoKey, NoKey),
     Headers(SERVER_API_KEY, NoKey),
     Headers(WrongKey, NoKey),
     Headers(BearerPrefix \o SERVER_API_KEY, NoKey),
     Headers(NoKey, BearerPrefix \o SERVER_API_KEY),
     Headers(NoKey, SERVER_API_KEY),
     Headers(NoKey, BearerPrefix),
     Headers(WrongKey, BearerPrefix \o SERVER_API_KEY)}

\* key.startsWith(prefix)
StartsWith(key, prefix) ==
    Len(key) >= Len(prefix) /\ SubSeq(key, 1, Len(prefix)) = prefix

\* key.split(" ")[1] of a key with a space in it: the units between its
\* first space and its second one (or its end).
SplitSecond(key) ==
    LET first == CHOOSE i \in 1..Len(key) :
                     key[i] = 32 /\ \A j \in 1..(i - 1) : key[j] # 32
        rest == SubSeq(key, first + 1, Len(key))
        spaces == {i \in 1..Len(rest) : rest[i] = 32}
        stop == IF spaces = {} THEN Len(rest) + 1
                ELSE CHOOSE i \in spaces : \A j \in spaces : i <= j
    IN  SubSeq(rest, 1, stop - 1)

\* requireApiKey: the status it answers with, or 0 when it calls next().
\* The key is the x-api-key header or else the authorization header; a
\* leading "Bearer " is dropped before the comparison.
requireApiKey(headers) ==
    LET key == IF headers.xApiKey # NoKey THEN headers.xApiKey ELSE headers.authorization
        token == IF StartsWith(key, BearerPrefix) THEN SplitSecond(key) ELSE key
    IN  IF key = NoKey THEN 401
        ELSE IF token # SERVER_API_KEY THEN 403
        ELSE 0

\* The body requireApiKey answers with.
ApiKeyError(status) ==
    [error |-> IF status = 401 THEN "Missing API key" ELSE "Invalid API key"]

\* A request with these headers never reaches its handler; the rest of such
\* a request is not read, and requests are drawn with it empty.
Rejected(headers) == requireApiKey(headers) # 0

\* The embedding service: the vector of a text. Equal texts have equal
\* vectors and different texts different ones.
EmbeddingOf(text) == <<"embedding", text>>

\* new Array(768).fill(0)
ZeroVector == <<"zero">>

\* The generation service: the answer to a prompt.
AnswerTo(prompt) == <<"answer", prompt>>

\* err.message of a failed remote call.
ErrorMessage(op) == op \o " failed"

\* VectorId without the session id: the chunk index alone.
VectorId_IndexOnly(sessionId, i) == ToString(i)

\* The record id `${sessionId}_${i}`.
VectorId(sessionId, i) == sessionId \o "_" \o ToString(i)

(***************************************************************************)
(* The vector index                                                        *)
(***************************************************************************)

\* The elements of a finite set, as a sequence.
RECURSIVE SetToSeq(_)
SetToSeq(S) ==
    IF S = {} THEN <<>>
    ELSE LET x == CHOOSE y \in S : TRUE
         IN  <<x>> \o SetToSeq(S \ {x})

\* The similarity the index ranks by: the code units two embedded texts
\* share; every record is equally near the zero vector.
Similarity(a, b) ==
    IF a = ZeroVector \/ b = ZeroVector THEN 0
    ELSE Cardinality({a[2][i] : i \in 1..Len(a[2])}
                     \cap {b[2][i] : i \in 1..Len(b[2])})

\* A record satisfies a metadata filter (exact match on session_id); a query
\* without a filter matches every record.
Satisfies(metadata, filter) ==
    "session_id" \in DOMAIN filter => metadata.session_id = filter.session_id

\* A power of two above every chunk index of the records ids, from b on.
RECURSIVE IndexBound(_, _, _)
IndexBound(st, ids, b) ==
    IF \A id \in ids : st[id].metadata.chunk_index < b THEN b
    ELSE IndexBound(st, ids, 2 * b)

\* The records ids, whose chunk indexes lie in lo..hi, as a sequence in the
\* order of their chunk index (halving the range, so that a session of
\* thousands of records is listed in few nested steps).
RECURSIVE ByChunkIndex(_, _, _, _)
ByChunkIndex(st, ids, lo, hi) ==
    IF ids = {} THEN <<>>
    ELSE IF lo = hi \/ Cardinality(ids) = 1 THEN SetToSeq(ids)
    ELSE LET mid == (lo + hi) \div 2
         IN  ByChunkIndex(st, {id \in ids : st[id].metadata.chunk_index <= mid}, lo, mid)
                 \o ByChunkIndex(st, {id \in ids : st[id].metadata.chunk_index > mid},
                                 mid + 1, hi)

\* index.query({vector, topK, includeMetadata: true, filter}): the topK
\* nearest records that satisfy the filter, nearest first (equally near ones
\* by chunk index).
Query(st, vector, topK, filter) ==
    LET hits == {id \in DOMAIN st : Satisfies(st[id].metadata, filter)}
        nearer(a, b) ==
            LET sa == Similarity(vector, st[a].values)
                sb == Similarity(vector, st[b].values)
            IN  sa > sb \/ (sa = sb /\ st[a].metadata.chunk_index
                                        < st[b].metadata.chunk_index)
        listed == ByChunkIndex(st, hits, 0, IndexBound(st, hits, 1))
        ranked == SortSeq(listed, nearer)
        n == IF Len(ranked) < topK THEN Len(ranked) ELSE topK
    IN  [k \in 1..n |-> [id |-> ranked[k], metadata |-> st[ranked[k]].metadata]]

\* Upsert that keeps the record an id has already.
Upsert_KeepsExisting(st, batch) ==
    LET ids == {batch[k].id : k \in 1..Len(batch)}
        first(id) == CHOOSE k \in 1..Len(batch) : batch[k].id = id
    IN  [id \in DOMAIN st \cup ids |->
            IF id \in DOMAIN st THEN st[id] ELSE batch[first(id)]]

\* index.upsert(batch): each record of the batch is written under its id,
\* replacing the record that had it.
Upsert(st, batch) ==
    LET ids == {batch[k].id : k \in 1..Len(batch)}
        last(id) == CHOOSE k \in 1..Len(batch) :
                        /\ batch[k].id = id
                        /\ \A j \in (k + 1)..Len(batch) : batch[j].id # id
    IN  [id \in DOMAIN st \cup ids |->
            IF id \in ids
            THEN [values |-> batch[last(id)].values,
                  metadata |-> batch[last(id)].metadata]
            ELSE st[id]]

\* index.deleteMany(ids)
DeleteMany(st, ids) ==
    [id \in DOMAIN st \ {ids[k] : k \in 1..Len(ids)} |-> st[id]]

\* The records of one session.
SessionRecords(st, sessionId) ==
    {id \in DOMAIN st : st[id].metadata.session_id = sessionId}

(***************************************************************************)
(* Requests                                                                *)
(***************************************************************************)

\* The slots requests are served in; env.inflight of them are in use.
Slots == {1, 2}

NoResponse == [status |-> 0]

\* A slot that serves no request. The fields are the handler's inputs
\* (kind, no, sessionId, file, question, topK; the headers are read by
\* requireApiKey only and not kept), its position pc, its
\* local variables, the response sent, and three records of what happened:
\* calls (the remote calls made, in order), delFailed (a call of
\* deleteSessionVectors failed) and during (the requests that were being
\* served when this one arrived).
IdleReq ==
    [kind |-> "none", pc |-> "idle", no |-> 0,
     sessionId |-> NoSession, file |-> NoFile, question |-> <<>>, topK |-> 0,
     vectorIds |-> <<>>, di |-> 0,
     validChunks |-> <<>>, cleanedTexts |-> <<>>, allEmbeddings |-> <<>>, ei |-> 0,
     si |-> 0, vectors |-> <<>>, ui |-> 0, after |-> NoResponse,
     cleanedQuestion |-> <<>>, qEmb |-> <<>>, matches |-> <<>>,
     resp |-> NoResponse, calls |-> <<>>, delFailed |-> FALSE, during |-> {}]

\* A remote call as recorded in calls.
Call(op, arg, ok) == [op |-> op, arg |-> arg, ok |-> ok]

Logged(q, op, arg, ok) == [q EXCEPT !.calls = Append(@, Call(op, arg, ok))]

\* The handler has sent its response and returned: its locals are gone.
Respond(q, status, body) ==
    [IdleReq EXCEPT !.kind = q.kind, !.no = q.no,
                    !.sessionId = q.sessionId, !.file = q.file,
                    !.question = q.question, !.topK = q.topK,
                    !.calls = q.calls, !.delFailed = q.delFailed,
                    !.during = q.during,
                    !.pc = "done",
                    !.resp = [status |-> status, body |-> body]]

\* res.status(500).json({ error: err.message })
RespondError(q, message) == Respond(q, 500, [error |-> message])

Active(r) == rq[r].pc \notin {"idle", "done"}

\* A new request takes the first slot that serves none, while fewer than
\* env.inflight requests are being served and the run has requests left.
CanStart(r) ==
    /\ clock < env.requests
    /\ ~Active(r)
    /\ \A o \in Slots : o < r => Active(o)
    /\ Cardinality({o \in Slots : Active(o)}) < env.inflight

\* A remote call succeeds (ok) or fails; at most env.faults calls of a run
\* fail.
Outcome(ok) ==
    /\ ok \/ faults < env.faults
    /\ faults' = IF ok THEN faults ELSE faults + 1

\* The requests being served, by number.
Serving == {rq[o].no : o \in {x \in Slots : Active(x)}}

\* The record of successful uploads, after a step that left request q: its
\* file is added when the step sent the success response.
Ingested(h, q) ==
    IF q.pc = "done" /\ q.resp.status = 200
    THEN [h EXCEPT ![q.sessionId] = Append(@, q.file)]
    ELSE h

\* fs.unlink of a request's temporary file.
Unlink(files, q) == files \ {q.no}

(***************************************************************************)
(* deleteSessionVectors(sessionId), called by upload and clear-session     *)
(***************************************************************************)

DeleteTopK == 10000
DeleteBatchSize == 1000

\* deleteSessionVectors has returned (normally) to its caller: upload calls
\* fs.readFile, clear-session answers.
AfterDelete(q) ==
    IF q.kind = "clear"
    THEN Respond(q, 200, [ok |-> TRUE,
                         message |-> "Session " \o q.sessionId \o " cleared successfully"])
    ELSE [q EXCEPT !.pc = "readFile", !.vectorIds = <<>>, !.di = 0]

\* deleteSessionVectorsQuery with the query's matches ignored: nothing is
\* found, so nothing is deleted.
deleteSessionVectorsQuery_FindsNothing(q, st, ok) ==
    LET l == Logged(q, "query", [topK |-> DeleteTopK,
                                 filter |-> [session_id |-> q.sessionId]], ok)
    IN  IF ~ok THEN AfterDelete([l EXCEPT !.delFailed = TRUE]) ELSE AfterDelete(l)

\* deleteSessionVectorsQuery without its catch block: a failed query reaches
\* the caller's.
deleteSessionVectorsQuery_Throws(q, st, ok) ==
    LET filter == [session_id |-> q.sessionId]
        l == Logged(q, "query", [topK |-> DeleteTopK, filter |-> filter], ok)
        matches == Query(st, ZeroVector, DeleteTopK, filter)
    IN  IF ~ok THEN RespondError([l EXCEPT !.delFailed = TRUE], ErrorMessage("query"))
        ELSE IF Len(matches) > 0
        THEN [l EXCEPT !.pc = "delBatch", !.di = 0,
                       !.vectorIds = [k \in 1..Len(matches) |-> matches[k].id]]
        ELSE AfterDelete(l)

\* deleteSessionVectors, to the end of its index.query call: the ids of the
\* matches, or none; a failed query is caught and logged.
deleteSessionVectorsQuery(q, st, ok) ==
    LET filter == [session_id |-> q.sessionId]
        l == Logged(q, "query", [topK |-> DeleteTopK, filter |-> filter], ok)
        matches == Query(st, ZeroVector, DeleteTopK, filter)
    IN  IF ~ok THEN AfterDelete([l EXCEPT !.delFailed = TRUE])
        ELSE IF Len(matches) > 0
        THEN [l EXCEPT !.pc = "delBatch", !.di = 0,
                       !.vectorIds = [k \in 1..Len(matches) |-> matches[k].id]]
        ELSE AfterDelete(l)

DelQuery(r) ==
    /\ rq[r].pc = "delQuery"
    /\ \E ok \in BOOLEAN :
        /\ Outcome(ok)
        /\ rq' = [rq EXCEPT ![r] = deleteSessionVectorsQuery(rq[r], store, ok)]
    /\ UNCHANGED <<store, tmp, clock, hist, env, textVars>>

\* vectorIds.slice(i, i + batchSize)
DeleteBatch(q) == Slice(q.vectorIds, q.di, q.di + DeleteBatchSize)

\* One turn of the delete loop: index.deleteMany(batch); a failure is caught
\* and logged, and the loop is left.
deleteSessionVectorsBatch(q, ok) ==
    LET l == Logged(q, "deleteMany", [from |-> q.di, n |-> Len(DeleteBatch(q))], ok)
    IN  IF ~ok THEN AfterDelete([l EXCEPT !.delFailed = TRUE])
        ELSE IF q.di + DeleteBatchSize < Len(q.vectorIds)
        THEN [l EXCEPT !.di = q.di + DeleteBatchSize]
        ELSE AfterDelete(l)

DelBatch(r) ==
    /\ rq[r].pc = "delBatch"
    /\ \E ok \in BOOLEAN :
        /\ Outcome(ok)
        /\ rq' = [rq EXCEPT ![r] = deleteSessionVectorsBatch(rq[r], ok)]
        /\ store' = IF ok THEN DeleteMany(store, DeleteBatch(rq[r])) ELSE store
    /\ UNCHANGED <<tmp, clock, hist, env, textVars>>

(***************************************************************************)
(* POST /api/upload                                                        *)
(***************************************************************************)

\* uploadBegin without the call of deleteSessionVectors: the handler goes
\* straight to the file.
uploadBegin_SkipsDelete(q, headers) ==
    IF requireApiKey(headers) # 0
    THEN Respond(q, requireApiKey(headers), ApiKeyError(requireApiKey(headers)))
    ELSE IF q.file = NoFile THEN Respond(q, 400, [error |-> "No file uploaded"])
    ELSE IF q.sessionId = NoSession THEN Respond(q, 400, [error |-> "Missing session ID"])
    ELSE [q EXCEPT !.pc = "readFile"]

\* The handler to its first await: 400 without a file or a session id, else
\* on to deleteSessionVectors.
uploadBegin(q, headers) ==
    IF requireApiKey(headers) # 0
    THEN Respond(q, requireApiKey(headers), ApiKeyError(requireApiKey(headers)))
    ELSE IF q.file = NoFile THEN Respond(q, 400, [error |-> "No file uploaded"])
    ELSE IF q.sessionId = NoSession THEN Respond(q, 400, [error |-> "Missing session ID"])
    ELSE [q EXCEPT !.pc = "delQuery"]

\* multer (upload.single) has stored the file of request q before the
\* handler runs; it runs after requireApiKey.
uploadBeginFiles(files, q, headers) ==
    IF requireApiKey(headers) = 0 /\ q.file # NoFile THEN files \cup {q.no} ELSE files

UploadBegin(r) ==
    /\ CanStart(r)
    /\ \E headers \in Keys, file \in env.docs \cup {NoFile},
          sessionId \in Sessions \cup {NoSession} :
        LET q == [IdleReq EXCEPT !.kind = "upload", !.no = clock + 1,
                                 !.file = file, !.sessionId = sessionId,
                                 !.during = Serving]
        IN  /\ Rejected(headers) => (file = NoFile /\ sessionId = NoSession)
            /\ rq' = [rq EXCEPT ![r] = uploadBegin(q, headers)]
            /\ tmp' = uploadBeginFiles(tmp, q, headers)
    /\ clock' = clock + 1
    /\ UNCHANGED <<store, faults, hist, env, textVars>>

\* await fs.unlink(filePath) before a response: the handler waits for the
\* unlink with the response it will send.
ThenUnlink(q, status, body) ==
    [q EXCEPT !.pc = "unlink", !.after = [status |-> status, body |-> body]]

\* The catch block of the handler: the file is unlinked (req.file is set),
\* then 500 is sent with the error's message.
uploadCatch(q, message) == ThenUnlink(q, 500, [error |-> message])

\* await fs.readFile(filePath) has settled: pdfParse(data) is called.
uploadReadFile(q) == [q EXCEPT !.pc = "pdfParse"]

ReadFile(r) ==
    /\ rq[r].pc = "readFile"
    /\ rq' = [rq EXCEPT ![r] = uploadReadFile(rq[r])]
    /\ UNCHANGED <<store, tmp, clock, faults, hist, env, textVars>>

EmbedBatchSize == 10

\* embedTexts(texts), to its first call of the embedding service: the
\* cleaned texts that are not empty.
embedTextsBegin(texts) ==
    SelectSeq([i \in 1..Len(texts) |-> cleanText(texts[i])], LAMBDA t : Len(t) > 0)

\* The handler from the end of pdfParse to its next await: the text is
\* chunked; for a blank text and for no chunk the file is unlinked and 400
\* sent; when pdfParse or embedTexts throws the catch block is entered; else
\* embedTexts has called batchEmbedContents for its first batch.
uploadExtract(q) ==
    IF ParseFails(q.file) THEN uploadCatch(q, ErrorMessage("pdfParse"))
    ELSE LET text == DocText[q.file]
             chunks == ChunksOf[q.file]
             validChunks == SelectSeq(chunks, LAMBDA c : c # <<>> /\ ~IsBlank(c))
             cleanedTexts == embedTextsBegin(validChunks)
         IN  IF IsBlank(text)
             THEN ThenUnlink(q, 400, [error |-> "PDF contains no readable text content."])
             ELSE IF Len(validChunks) = 0
             THEN ThenUnlink(q, 400,
                    [error |-> "PDF contains no processable text content after cleaning."])
             ELSE IF Len(cleanedTexts) = 0
             THEN uploadCatch([q EXCEPT !.validChunks = validChunks],
                              "No valid text chunks after cleaning")
             ELSE [q EXCEPT !.pc = "embedBatch", !.validChunks = validChunks,
                            !.cleanedTexts = cleanedTexts,
                            !.allEmbeddings = <<>>, !.ei = 0]

Extract(r) ==
    /\ rq[r].pc = "pdfParse"
    /\ rq' = [rq EXCEPT ![r] = uploadExtract(rq[r])]
    /\ UNCHANGED <<store, tmp, clock, faults, hist, env, textVars>>

\* The vector records: embeddings.slice(0, minLength).map((emb, i) => ...).
BuildVectors(q) ==
    LET minLength == IF Len(q.allEmbeddings) < Len(q.validChunks)
                     THEN Len(q.allEmbeddings) ELSE Len(q.validChunks)
    IN  [k \in 1..minLength |->
            [id |-> VectorId(q.sessionId, k - 1),
             values |-> q.allEmbeddings[k],
             metadata |-> [text |-> q.validChunks[k],
                           source |-> q.file,
                           chunk_index |-> k - 1,
                           session_id |-> q.sessionId,
                           uploaded_at |-> q.no]]]

\* The end of the try block: await fs.unlink(filePath), then
\* res.json({ ok: true, uploaded_chunks: vectors.length, session_id }).
UploadDone(q, count) ==
    ThenUnlink(q, 200, [ok |-> TRUE, uploaded_chunks |-> count, session_id |-> q.sessionId])

\* embedTexts has returned q.allEmbeddings: the records are built and
\* index.upsert is called for the first batch; with no record the upsert
\* loop is not entered.
uploadEmbedded(q) ==
    LET vectors == BuildVectors(q)
    IN  IF Len(vectors) = 0 THEN UploadDone([q EXCEPT !.vectors = vectors], 0)
        ELSE [q EXCEPT !.pc = "upsert", !.vectors = vectors, !.ui = 0]

\* cleanedTexts.slice(i, i + batchSize)
EmbedBatchOf(q) == Slice(q.cleanedTexts, q.ei, q.ei + EmbedBatchSize)

\* The end of a turn of the batch loop of embedTexts: a sleep of 100 ms when
\* a batch follows, else embedTexts returns.
embedTextsNext(q) ==
    IF q.ei + EmbedBatchSize < Len(q.cleanedTexts)
    THEN [q EXCEPT !.pc = "embedSleep"]
    ELSE uploadEmbedded(q)

\* batchEmbedContents has settled. outcome is what it did: "ok" (one
\* embedding per text), "empty" (a result without embeddings, which is logged
\* only) or "throw" (embedContent is then called for the first text of the
\* batch).
embedTextsBatch(q, outcome) ==
    LET batch == EmbedBatchOf(q)
        l == Logged(q, "batchEmbedContents",
                    [from |-> q.ei, n |-> Len(batch), result |-> outcome],
                    outcome # "throw")
    IN  IF outcome = "ok"
        THEN embedTextsNext([l EXCEPT !.allEmbeddings =
                                @ \o [k \in 1..Len(batch) |-> EmbeddingOf(batch[k])]])
        ELSE IF outcome = "empty" THEN embedTextsNext(l)
        ELSE [l EXCEPT !.pc = "embedSingle", !.si = 0]

\* A call of the embedding service that does not give its embeddings (a
\* result without them, or an error) is one of the run's failures.
EmbedBatch(r) ==
    /\ rq[r].pc = "embedBatch"
    /\ \E outcome \in {"ok", "empty", "throw"} :
        /\ Outcome(outcome = "ok")
        /\ rq' = [rq EXCEPT ![r] = embedTextsBatch(rq[r], outcome)]
    /\ UNCHANGED <<store, tmp, clock, hist, env, textVars>>

\* embedTextsSingle with no catch around the single-item call: a text whose
\* embedContent call fails makes embedTexts throw, and the handler's catch
\* block is entered.
embedTextsSingle_FailureThrows(q, ok) ==
    LET batch == EmbedBatchOf(q)
        l == Logged(q, "embedContent", q.ei + q.si, ok)
        pushed == [l EXCEPT !.allEmbeddings = Append(@, EmbeddingOf(batch[q.si + 1])),
                            !.si = q.si + 1]
    IN  IF ~ok THEN uploadCatch([l EXCEPT !.si = 0], ErrorMessage("embedContent"))
        ELSE IF pushed.si < Len(batch) THEN pushed
        ELSE embedTextsNext([pushed EXCEPT !.si = 0])

\* One turn of the fallback loop: embedContent(text) has settled for text
\* si of the batch. Its embedding is pushed, or the text is skipped; the
\* next text follows, or the turn of the batch loop ends.
embedTextsSingle(q, ok) ==
    LET batch == EmbedBatchOf(q)
        l == Logged(q, "embedContent", q.ei + q.si, ok)
        pushed == [l EXCEPT !.allEmbeddings =
                                IF ok THEN Append(@, EmbeddingOf(batch[q.si + 1])) ELSE @,
                            !.si = q.si + 1]
    IN  IF pushed.si < Len(batch) THEN pushed
        ELSE embedTextsNext([pushed EXCEPT !.si = 0])

EmbedSingle(r) ==
    /\ rq[r].pc = "embedSingle"
    /\ \E ok \in BOOLEAN :
        /\ Outcome(ok)
        /\ rq' = [rq EXCEPT ![r] = embedTextsSingle(rq[r], ok)]
    /\ UNCHANGED <<store, tmp, clock, hist, env, textVars>>

\* The sleep between two batches is over: i += batchSize, and
\* batchEmbedContents is called for the next batch.
embedTextsSleep(q) == [q EXCEPT !.pc = "embedBatch", !.ei = q.ei + EmbedBatchSize]

EmbedSleep(r) ==
    /\ rq[r].pc = "embedSleep"
    /\ rq' = [rq EXCEPT ![r] = embedTextsSleep(rq[r])]
    /\ UNCHANGED <<store, tmp, clock, faults, hist, env, textVars>>

UpsertBatchSize == 100

\* UpsertBatchOf without the loop's offset: every call of index.upsert sends
\* vectors.slice(0, batchSize).
UpsertBatchOf_FirstBatch(q) == Slice(q.vectors, 0, UpsertBatchSize)

\* vectors.slice(i, i + batchSize)
UpsertBatchOf(q) == Slice(q.vectors, q.ui, q.ui + UpsertBatchSize)

\* uploadUpsert with a failed batch caught inside the loop: the next batch is
\* written and the handler answers with success.
uploadUpsert_Swallows(q, ok) ==
    LET l == Logged(q, "upsert", [from |-> q.ui, n |-> Len(UpsertBatchOf(q))], ok)
    IN  IF q.ui + UpsertBatchSize < Len(q.vectors)
        THEN [l EXCEPT !.ui = q.ui + UpsertBatchSize]
        ELSE UploadDone(l, Len(q.vectors))

\* One turn of the upsert loop: index.upsert(batch) has settled. A failure
\* reaches the catch block; after the last batch the file is unlinked and
\* the number of records sent.
uploadUpsert(q, ok) ==
    LET l == Logged(q, "upsert", [from |-> q.ui, n |-> Len(UpsertBatchOf(q))], ok)
    IN  IF ~ok THEN uploadCatch(l, ErrorMessage("upsert"))
        ELSE IF q.ui + UpsertBatchSize < Len(q.vectors)
        THEN [l EXCEPT !.ui = q.ui + UpsertBatchSize]
        ELSE UploadDone(l, Len(q.vectors))

UpsertBatch(r) ==
    /\ rq[r].pc = "upsert"
    /\ \E ok \in BOOLEAN :
        /\ Outcome(ok)
        /\ rq' = [rq EXCEPT ![r] = uploadUpsert(rq[r], ok)]
        /\ store' = IF ok THEN Upsert(store, UpsertBatchOf(rq[r])) ELSE store
    /\ UNCHANGED <<tmp, clock, hist, env, textVars>>

\* fs.unlink removes the file; the handler still waits for it.
uploadUnlink(q) == [q EXCEPT !.pc = "unlinked"]

FsUnlink(r) ==
    /\ rq[r].pc = "unlink"
    /\ rq' = [rq EXCEPT ![r] = uploadUnlink(rq[r])]
    /\ tmp' = Unlink(tmp, rq[r])
    /\ UNCHANGED <<store, clock, faults, hist, env, textVars>>

\* await fs.unlink has settled: the response is sent.
uploadRespond(q) == Respond(q, q.after.status, q.after.body)

AfterUnlink(r) ==
    /\ rq[r].pc = "unlinked"
    /\ rq' = [rq EXCEPT ![r] = uploadRespond(rq[r])]
    /\ hist' = Ingested(hist, rq'[r])
    /\ UNCHANGED <<store, tmp, clock, faults, env, textVars>>

(***************************************************************************)
(* POST /api/ask                                                           *)
(***************************************************************************)

\* topK = 4 when the body gives none.
AskDefaultTopK == 4
TopKs == {1, AskDefaultTopK}

NoInfoAnswer ==
    "I couldn't find any relevant information in the current document. "
        \o "Please make sure you have uploaded a PDF document for this session."

\* The handler to its first await: 400 without a question or a session id
\* and for a question that cleanText empties.
askBegin(q, headers) ==
    IF requireApiKey(headers) # 0
    THEN Respond(q, requireApiKey(headers), ApiKeyError(requireApiKey(headers)))
    ELSE IF q.question = <<>> THEN Respond(q, 400, [error |-> "Missing question"])
    ELSE IF q.sessionId = NoSession THEN Respond(q, 400, [error |-> "Missing session ID"])
    ELSE IF cleanText(q.question) = <<>>
    THEN Respond(q, 400, [error |-> "Question contains no valid content"])
    ELSE [q EXCEPT !.pc = "askEmbed", !.cleanedQuestion = cleanText(q.question)]

AskBegin(r) ==
    /\ CanStart(r)
    /\ \E headers \in Keys, question \in Questions,
          sessionId \in Sessions \cup {NoSession}, topK \in TopKs :
        /\ Rejected(headers) =>
              (question = <<>> /\ sessionId = NoSession /\ topK = AskDefaultTopK)
        /\ rq' = [rq EXCEPT ![r] =
                  askBegin([IdleReq EXCEPT !.kind = "ask", !.no = clock + 1,
                                           !.question = question,
                                           !.sessionId = sessionId, !.topK = topK,
                                           !.during = Serving], headers)]
    /\ clock' = clock + 1
    /\ UNCHANGED <<store, tmp, faults, hist, env, textVars>>

\* geminiEmbeddingModel.embedContent(cleanedQuestion)
askEmbed(q, ok) ==
    LET l == Logged(q, "embedContent", 0, ok)
    IN  IF ~ok THEN RespondError(l, ErrorMessage("embedContent"))
        ELSE [l EXCEPT !.pc = "askQuery", !.qEmb = EmbeddingOf(q.cleanedQuestion)]

AskEmbed(r) ==
    /\ rq[r].pc = "askEmbed"
    /\ \E ok \in BOOLEAN :
        /\ Outcome(ok)
        /\ rq' = [rq EXCEPT ![r] = askEmbed(rq[r], ok)]
    /\ UNCHANGED <<store, tmp, clock, hist, env, textVars>>

\* askFilter that sends no filter.
askFilter_None(q) == [x \in {} |-> x]

\* filter: { session_id: sessionId }
askFilter(q) == [session_id |-> q.sessionId]

\* The sources of a response: one per match, in the order of the matches.
Sources(matches) ==
    [k \in 1..Len(matches) |->
        [source |-> matches[k].metadata.source,
         chunk_index |-> matches[k].metadata.chunk_index,
         session_id |-> matches[k].metadata.session_id]]

\* askQuery without the test for no match: the generation service is asked
\* with an empty context.
askQuery_NoEmptyCheck(q, st, ok) ==
    LET l == Logged(q, "query", [topK |-> q.topK, filter |-> askFilter(q)], ok)
        matches == Query(st, q.qEmb, q.topK, askFilter(q))
    IN  IF ~ok THEN RespondError(l, ErrorMessage("query"))
        ELSE [l EXCEPT !.pc = "askGenerate", !.matches = matches]

\* index.query({topK, vector: qEmb, includeMetadata: true, filter}), and the
\* canned answer when nothing matches.
askQuery(q, st, ok) ==
    LET l == Logged(q, "query", [topK |-> q.topK, filter |-> askFilter(q)], ok)
        matches == Query(st, q.qEmb, q.topK, askFilter(q))
    IN  IF ~ok THEN RespondError(l, ErrorMessage("query"))
        ELSE IF Len(matches) = 0
        THEN Respond(l, 200, [answer |-> NoInfoAnswer, sources |-> <<>>])
        ELSE [l EXCEPT !.pc = "askGenerate", !.matches = matches]

AskQuery(r) ==
    /\ rq[r].pc = "askQuery"
    /\ \E ok \in BOOLEAN :
        /\ Outcome(ok)
        /\ rq' = [rq EXCEPT ![r] = askQuery(rq[r], store, ok)]
    /\ UNCHANGED <<store, tmp, clock, hist, env, textVars>>

\* The prompt: the texts of the matches, in their order, and the question as
\* it was asked.
Prompt(q) ==
    [contexts |-> [k \in 1..Len(q.matches) |-> q.matches[k].metadata.text],
     question |-> q.question]

\* geminiChatModel.generateContent(fullPrompt) and the response.
askGenerate(q, ok) ==
    LET l == Logged(q, "generateContent", 0, ok)
    IN  IF ~ok THEN RespondError(l, ErrorMessage("generateContent"))
        ELSE Respond(l, 200, [answer |-> AnswerTo(Prompt(q)),
                              sources |-> Sources(q.matches),
                              session_id |-> q.sessionId])

AskGenerate(r) ==
    /\ rq[r].pc = "askGenerate"
    /\ \E ok \in BOOLEAN :
        /\ Outcome(ok)
        /\ rq' = [rq EXCEPT ![r] = askGenerate(rq[r], ok)]
    /\ UNCHANGED <<store, tmp, clock, hist, env, textVars>>

(***************************************************************************)
(* POST /api/clear-session                                                 *)
(***************************************************************************)

clearBegin(q, headers) ==
    IF requireApiKey(headers) # 0
    THEN Respond(q, requireApiKey(headers), ApiKeyError(requireApiKey(headers)))
    ELSE IF q.sessionId = NoSession THEN Respond(q, 400, [error |-> "Missing session ID"])
    ELSE [q EXCEPT !.pc = "delQuery"]

ClearBegin(r) ==
    /\ CanStart(r)
    /\ \E headers \in Keys, sessionId \in Sessions \cup {NoSession} :
        /\ Rejected(headers) => sessionId = NoSession
        /\ rq' = [rq EXCEPT ![r] =
                  clearBegin([IdleReq EXCEPT !.kind = "clear", !.no = clock + 1,
                                             !.sessionId = sessionId,
                                             !.during = Serving], headers)]
    /\ clock' = clock + 1
    /\ UNCHANGED <<store, tmp, faults, hist, env, textVars>>

(***************************************************************************)
(* The server                                                              *)
(***************************************************************************)

EmptyIndex == [id \in {} |-> id]

NoText == [text |-> <<>>, maxLen |-> 0]

PipeInit ==
    /\ store = EmptyIndex
    /\ rq = [r \in Slots |-> IdleReq]
    /\ tmp = {}
    /\ clock = 0
    /\ faults = 0
    /\ hist = [x \in Sessions |-> <<>>]
    /\ tin = NoText
    /\ tout = [op |-> "none"]

\* Requests are served one at a time, on the small documents.
Init ==
    /\ PipeInit
    /\ env = [inflight |-> 1, docs |-> SmallDocs,
              requests |-> MaxRequests, faults |-> MaxFaults]

\* The steps of an upload whose document gives one batch of texts at most
\* (ten chunks): embedTexts does not sleep.
UploadOneBatch(r) ==
    UploadBegin(r) \/ DelQuery(r) \/ DelBatch(r) \/ ReadFile(r) \/ Extract(r)
        \/ EmbedBatch(r) \/ EmbedSingle(r) \/ UpsertBatch(r)
        \/ FsUnlink(r) \/ AfterUnlink(r)

\* The steps of an upload.
Upload(r) == UploadOneBatch(r) \/ EmbedSleep(r)

Ask(r) == AskBegin(r) \/ AskEmbed(r) \/ AskQuery(r) \/ AskGenerate(r)

\* The small documents have three chunks at most.
Next == \E r \in Slots : UploadOneBatch(r) \/ Ask(r) \/ ClearBegin(r)

Spec == Init /\ [][Next]_vars

\* The request of an earlier upload of one.pdf to session "s" that met no
\* failure, as it stood when its records were built.
EarlierUpload ==
    LET validChunks == ChunksOf["one.pdf"]
        cleanedTexts == embedTextsBegin(validChunks)
    IN  [IdleReq EXCEPT !.kind = "upload", !.no = 0,
                        !.sessionId = "s", !.file = "one.pdf",
                        !.validChunks = validChunks,
                        !.allEmbeddings = [k \in 1..Len(cleanedTexts) |->
                                              EmbeddingOf(cleanedTexts[k])]]

\* Uploads of the document of 101 chunks: eleven batches for the embedding
\* service, two for index.upsert.  Session "s" holds the records of the
\* earlier upload, so that deleteSessionVectors has records to delete.
BatchInit ==
    /\ store = Upsert(EmptyIndex, BuildVectors(EarlierUpload))
    /\ rq = [r \in Slots |-> IdleReq]
    /\ tmp = {}
    /\ clock = 0
    /\ faults = 0
    /\ hist = [x \in Sessions |-> IF x = "s" THEN <<"one.pdf">> ELSE <<>>]
    /\ tin = NoText
    /\ tout = [op |-> "none"]
    /\ env = [inflight |-> 1, docs |-> BigDocs,
              requests |-> BatchRequests, faults |-> BatchFaults]

BatchNext == \E r \in Slots : Upload(r)

BatchSpec == BatchInit /\ [][BatchNext]_vars

\* Uploads of the document of eleven chunks, two batches for the embedding
\* service, with failures enough for a batch and some of its texts.  Session
\* "s" holds the records of the earlier upload.
EmbedInit ==
    /\ store = Upsert(EmptyIndex, BuildVectors(EarlierUpload))
    /\ rq = [r \in Slots |-> IdleReq]
    /\ tmp = {}
    /\ clock = 0
    /\ faults = 0
    /\ hist = [x \in Sessions |-> IF x = "s" THEN <<"one.pdf">> ELSE <<>>]
    /\ tin = NoText
    /\ tout = [op |-> "none"]
    /\ env = [inflight |-> 1, docs |-> MidDocs,
              requests |-> EmbedRequests, faults |-> EmbedFaults]

EmbedNext == \E r \in Slots : Upload(r)

EmbedSpec == EmbedInit /\ [][EmbedNext]_vars

\* Requests served two at a time: the handlers have no lock, so the steps
\* (each await) of two uploads, or of an upload and a clear-session,
\* interleave freely. The documents have one chunk and 101 chunks: the
\* second is written by two calls of index.upsert, between which the steps
\* of the other request fall.
ConcDocs == {"one.pdf", "big.pdf"}

ConcInit ==
    /\ PipeInit
    /\ env = [inflight |-> Cardinality(Slots), docs |-> ConcDocs,
              requests |-> ConcRequests, faults |-> ConcFaults]

ConcNext == \E r \in Slots : Upload(r) \/ ClearBegin(r)

ConcSpec == ConcInit /\ [][ConcNext]_vars

\* A session that holds one record more than the query of
\* deleteSessionVectors asks for: the records a successful upload of a
\* document of HugeChunks chunks ("huge.pdf", request 0) has written.
HugeChunks == DeleteTopK + 1

\* The twelve units "Hchunk-ddddd" (ddddd the decimal k).
HugeWord(k) ==
    <<72, 99, 104, 117, 110, 107, 45,
      48 + (k \div 10000), 48 + ((k \div 1000) % 10), 48 + ((k \div 100) % 10),
      48 + ((k \div 10) % 10), 48 + (k % 10)>>

HugeRecord(sessionId, i) ==
    [id |-> VectorId(sessionId, i),
     values |-> EmbeddingOf(HugeWord(i)),
     metadata |-> [text |-> HugeWord(i),
                   source |-> "huge.pdf",
                   chunk_index |-> i,
                   session_id |-> sessionId,
                   uploaded_at |-> 0]]

\* The index after the upsert of the records lo..hi.
RECURSIVE HugeStore(_, _, _)
HugeStore(sessionId, lo, hi) ==
    IF lo = hi THEN Upsert(EmptyIndex, <<HugeRecord(sessionId, lo)>>)
    ELSE LET mid == (lo + hi) \div 2
         IN  HugeStore(sessionId, lo, mid) @@ HugeStore(sessionId, mid + 1, hi)

\* Requests to clear a session, one at a time, on that index.
ClearInit ==
    /\ store = HugeStore("s", 0, HugeChunks - 1)
    /\ rq = [r \in Slots |-> IdleReq]
    /\ tmp = {}
    /\ clock = 0
    /\ faults = 0
    /\ hist = [x \in Sessions |-> IF x = "s" THEN <<"huge.pdf">> ELSE <<>>]
    /\ tin = NoText
    /\ tout = [op |-> "none"]
    /\ env = [inflight |-> 1, docs |-> {},
              requests |-> ClearRequests, faults |-> ClearFaults]

ClearNext == \E r \in Slots : ClearBegin(r) \/ DelQuery(r) \/ DelBatch(r)

ClearSpec == ClearInit /\ [][ClearNext]_vars

(***************************************************************************)
(* The text layer on its own: cleanText and chunkText applied to texts     *)
(* built from a few pieces.                                                *)
(***************************************************************************)

\* The pieces a test text is made of: a letter, a space, a TAB, the
\* mis-decoded degree sign (C2 B0) and the first two units of the
\* mis-decoded angle, triangle and root signs (E2 2C6).
Pieces == << <<97>>, <<32>>, <<9>>, <<194, 176>>, <<226, 710>> >>

\* How often a piece is repeated in a segment, and how many segments a text
\* has at most.
Counts == {1, 10, 60}
MaxSegs == 3

Segments == (1..Len(Pieces)) \X Counts

\* The text of a sequence of segments <<piece, count>>.
Expand(segs) ==
    Flatten([k \in 1..Len(segs) |-> Rep(Pieces[segs[k][1]], segs[k][2])], 1, Len(segs))

TextInputs ==
    { Expand(segs) : segs \in UNION { [1..n -> Segments] : n \in 0..MaxSegs } }

\* The maximum chunk lengths tried: one near the overlap, and the one the
\* upload handler passes.
MaxLens == {250, UploadMaxLen}

TextInit ==
    /\ tin \in [text : TextInputs, maxLen : MaxLens]
    /\ tout = [op |-> "none"]
    /\ store = EmptyIndex
    /\ rq = [r \in Slots |-> IdleReq]
    /\ tmp = {}
    /\ clock = 0
    /\ faults = 0
    /\ hist = [x \in Sessions |-> <<>>]
    /\ env = [inflight |-> 0, docs |-> {}, requests |-> 0, faults |-> 0]

\* cleanedChunk = cleanText(tin.text)
ApplyCleanText ==
    /\ tout.op = "none"
    /\ tout' = [op |-> "cleanText", pass |-> 1, arg |-> tin.text,
                result |-> cleanText(tin.text)]
    /\ UNCHANGED <<tin, pipeVars>>

\* cleanText applied to what cleanText returned, as embedTexts does to the
\* chunks of chunkText.
ApplyCleanTextAgain ==
    /\ tout.op = "cleanText"
    /\ tout.pass = 1
    /\ tout' = [op |-> "cleanText", pass |-> 2, arg |-> tout.result,
                result |-> cleanText(tout.result)]
    /\ UNCHANGED <<tin, pipeVars>>

\* chunks = chunkText(tin.text, tin.maxLen)
ApplyChunkText ==
    /\ tout.op = "none"
    /\ tout' = [op |-> "chunkText",
                st |-> chunkLoop(tin.text, tin.maxLen,
                                 [i |-> 0, chunks |-> <<>>, windows |-> 0])]
    /\ UNCHANGED <<tin, pipeVars>>

TextNext == ApplyCleanText \/ ApplyCleanTextAgain \/ ApplyChunkText

TextSpec == TextInit /\ [][TextNext]_vars

(***************************************************************************)
(* Properties                                                              *)
(***************************************************************************)

\* The calls of one operation that request q made, in order.
CallsOf(q, op) == SelectSeq(q.calls, LAMBDA c : c.op = op)

RECURSIVE SumN(_)
SumN(calls) == IF calls = <<>> THEN 0 ELSE Head(calls).arg.n + SumN(Tail(calls))

\* The index with the records of one session only.
OnlySession(st, sessionId) == [id \in SessionRecords(st, sessionId) |-> st[id]]

UploadDoneOk(q) == q.kind = "upload" /\ q.pc = "done" /\ q.resp.status = 200

\* q is a successful upload of a file to a session that had ingested another
\* file before.
ReIngest(q) ==
    /\ UploadDoneOk(q)
    /\ \E k \in 1..(Len(hist[q.sessionId]) - 1) : hist[q.sessionId][k] # q.file

\* Every record of q's session comes from q's file.
OnlyNewFile(q) ==
    \A id \in SessionRecords(store, q.sessionId) : store[id].metadata.source = q.file

\* C1: every record of the index pairs an embedding with the chunk it was
\* computed from: its vector is the embedding the client computes for the
\* text in its metadata, whatever the embedding service did.
C1_EmbeddingOfItsChunk ==
    \A id \in DOMAIN store :
        store[id].values = EmbeddingOf(cleanText(store[id].metadata.text))

\* C2 as stated: once an upload of a new file to a session that had ingested
\* another file has succeeded, every record of the session comes from the
\* new file.
C2_SingleDocumentPerSession ==
    \A r \in Slots : ReIngest(rq[r]) => OnlyNewFile(rq[r])

\* C2, amended: the same, for an upload whose deleteSessionVectors met no
\* failure and found fewer records than its query can return.
C2_SingleDocumentAfterCleanDelete ==
    \A r \in Slots :
        (/\ ReIngest(rq[r])
         /\ ~rq[r].delFailed
         /\ SumN(CallsOf(rq[r], "deleteMany")) < DeleteTopK)
        => OnlyNewFile(rq[r])

\* An upload of a new file has succeeded after a deletion that removed the
\* records of the earlier file, and has written records of its own.
C2_Witness ==
    \E r \in Slots :
        /\ ReIngest(rq[r])
        /\ ~rq[r].delFailed
        /\ SumN(CallsOf(rq[r], "deleteMany")) > rq[r].resp.body.uploaded_chunks
        /\ rq[r].resp.body.uploaded_chunks > 0

AskDoneOk(q) == q.kind = "ask" /\ q.pc = "done" /\ q.resp.status = 200

\* What the index holding the records of q's session only returns for q's
\* question.
OwnMatches(q) ==
    Query(OnlySession(store, q.sessionId), EmbeddingOf(cleanText(q.question)),
          q.topK, [session_id |-> q.sessionId])

\* C3: an answered question of session S was put to the index with the filter
\* session_id = S; its sources are those of the matches the records of S
\* alone give, in their order, at most topK of them and all of session S,
\* whatever the other sessions hold.
C3_AskIsolated ==
    \A r \in Slots :
        LET q == rq[r]
        IN  /\ (q.kind = "ask" =>
                  \A k \in 1..Len(q.calls) :
                      q.calls[k].op = "query" =>
                          q.calls[k].arg = [topK |-> q.topK,
                                            filter |-> [session_id |-> q.sessionId]])
            /\ (AskDoneOk(q) =>
                  /\ q.resp.body.sources = Sources(OwnMatches(q))
                  /\ Len(q.resp.body.sources) <= q.topK
                  /\ \A k \in 1..Len(q.resp.body.sources) :
                        q.resp.body.sources[k].session_id = q.sessionId)

\* A question of a session with several records is answered with topK = 1
\* source while another session holds records too.
C3_Witness ==
    \E r \in Slots :
        /\ AskDoneOk(rq[r])
        /\ rq[r].topK = 1
        /\ Len(rq[r].resp.body.sources) = 1
        /\ Cardinality(SessionRecords(store, rq[r].sessionId)) > 1
        /\ \E id \in DOMAIN store : store[id].metadata.session_id # rq[r].sessionId

\* C4: when an upload that received a file has answered, its temporary file
\* has been removed.
C4_TempFileRemoved ==
    \A r \in Slots :
        (/\ rq[r].kind = "upload"
         /\ rq[r].pc = "done"
         /\ rq[r].resp.status \notin {401, 403}
         /\ rq[r].file # NoFile)
        => rq[r].no \notin tmp

\* Request q with what it has recorded of its calls left out.
Unrecorded(q) == [q EXCEPT !.calls = <<>>, !.delFailed = FALSE]

\* C5: a step in which a call of deleteSessionVectors fails leaves the index
\* as it was and the handler where a deletion that succeeded would have left
\* it: upload goes on to read its file, clear-session answers with success.
C5_DeleteFailureSwallowed ==
    [][\A r \in Slots :
          (rq[r].pc \in {"delQuery", "delBatch"} /\ rq'[r].delFailed) =>
              /\ Unrecorded(rq'[r]) = Unrecorded(AfterDelete(rq[r]))
              /\ rq'[r].pc = IF rq[r].kind = "upload" THEN "readFile" ELSE "done"
              /\ store' = store]_vars

\* An upload has succeeded though its deletion failed, and records of an
\* earlier file remain in its session.
C5_Witness ==
    \E r \in Slots :
        /\ UploadDoneOk(rq[r])
        /\ rq[r].delFailed
        /\ rq[r].resp.body.uploaded_chunks > 0
        /\ ~OnlyNewFile(rq[r])

\* C6: the upsert calls of an upload are the batches of 100 records, in
\* order; none follows a failed one; after a failed one the handler answers
\* 500 with the call's message and no uploaded_chunks, and a success answer
\* counts the records of the batches, all of which are in the index.
C6_UpsertBatches ==
    \A r \in Slots :
        LET q == rq[r]
            ups == CallsOf(q, "upsert")
        IN  q.kind = "upload" =>
              /\ \A k \in 1..Len(ups) :
                    /\ ups[k].arg.from = UpsertBatchSize * (k - 1)
                    /\ ups[k].arg.n >= 1 /\ ups[k].arg.n <= UpsertBatchSize
                    /\ k < Len(ups) => (ups[k].ok /\ ups[k].arg.n = UpsertBatchSize)
                    /\ q.pc = "upsert" =>
                          ups[k].arg.n = Len(Slice(q.vectors, ups[k].arg.from,
                                                   ups[k].arg.from + UpsertBatchSize))
              /\ (q.pc = "upsert" => q.ui = UpsertBatchSize * Len(ups))
              /\ (q.pc = "done" /\ Len(ups) > 0 /\ ~ups[Len(ups)].ok) =>
                    q.resp = [status |-> 500, body |-> [error |-> ErrorMessage("upsert")]]
              /\ (q.pc = "done" /\ q.resp.status = 200) =>
                    /\ q.resp.body.uploaded_chunks = SumN(ups)
                    /\ \A i \in 0..(SumN(ups) - 1) :
                          VectorId(q.sessionId, i) \in DOMAIN store

\* An upload answered 500 after its first batch of 100 was written and its
\* second batch failed.
C6_Witness ==
    \E r \in Slots :
        LET ups == CallsOf(rq[r], "upsert")
        IN  /\ rq[r].pc = "done"
            /\ rq[r].resp.status = 500
            /\ Len(ups) = 2
            /\ ups[1].ok /\ ~ups[2].ok
            /\ Cardinality(DOMAIN store) = UpsertBatchSize

\* The query of request q succeeded and the index has no match for it.
NoMatch(q) ==
    /\ q.kind = "ask"
    /\ q.pc = "done"
    /\ \E k \in 1..Len(q.calls) : q.calls[k].op = "query" /\ q.calls[k].ok
    /\ Query(store, EmbeddingOf(cleanText(q.question)), q.topK,
             [session_id |-> q.sessionId]) = <<>>

\* C7: a question whose query finds no match is answered with success, the
\* canned answer and no sources, and the generation service is not called.
C7_NoMatchAnswer ==
    \A r \in Slots :
        NoMatch(rq[r]) =>
            /\ rq[r].resp = [status |-> 200,
                             body |-> [answer |-> NoInfoAnswer, sources |-> <<>>]]
            /\ CallsOf(rq[r], "generateContent") = <<>>

\* A question of a session without an upload got the canned answer while
\* another session holds records.
C7_Witness ==
    \E r \in Slots :
        /\ NoMatch(rq[r])
        /\ hist[rq[r].sessionId] = <<>>
        /\ rq[r].resp.status = 200
        /\ DOMAIN store # {}

\* C8: for a text that is not empty and no longer than maxLen, chunkText
\* examines one window and emits at most one chunk.
C8_OneWindowForShortText ==
    (tout.op = "chunkText" /\ tin.text # <<>> /\ Len(tin.text) <= tin.maxLen)
        => (tout.st.windows = 1 /\ Len(tout.st.chunks) <= 1)

\* C9: every chunk chunkText emits is not empty and no longer than maxLen.
C9_ChunkWithinMaxLen ==
    tout.op = "chunkText" =>
        \A k \in 1..Len(tout.st.chunks) :
            /\ tout.st.chunks[k] # <<>>
            /\ Len(tout.st.chunks[k]) <= tin.maxLen

\* C10: cleanText applied to a result of cleanText that was not cut to 8000
\* units returns it unchanged.
C10_CleanTextIdempotent ==
    (tout.op = "cleanText" /\ tout.pass = 2 /\ Len(CleanChain(tin.text)) <= MaxCleanLen)
        => tout.result = tout.arg

\* The calls of q that follow its call number p, as many as n.
CallsAfter(q, p, n) == Slice(q.calls, p, p + n)

\* The single-item calls embedTexts makes for a batch it retries: one
\* embedContent per text of the batch, in the batch's order, the next call
\* being made when the one before it has settled; all of them have settled
\* unless the upload is still in this loop.
RetriedSingly(q, p) ==
    LET c == q.calls[p]
        after == CallsAfter(q, p, c.arg.n)
    IN  /\ \A k \in 1..Len(after) :
              /\ after[k].op = "embedContent"
              /\ after[k].arg = c.arg.from + k - 1
        /\ \/ Len(after) = c.arg.n
           \/ /\ q.pc = "embedSingle"
              /\ q.ei = c.arg.from
              /\ q.si = Len(after)
              /\ p + Len(after) = Len(q.calls)

\* C11: a batch call that returns a result with no embeddings is treated as
\* a failed batch: each text of the batch is then tried on its own through
\* embedContent, as after a batch call that throws.
C11_EmptyBatchRetried ==
    \A r \in Slots :
        rq[r].kind = "upload" =>
            \A p \in 1..Len(rq[r].calls) :
                (/\ rq[r].calls[p].op = "batchEmbedContents"
                 /\ rq[r].calls[p].arg.result = "empty") => RetriedSingly(rq[r], p)

\* The embeddings embedTexts has collected after the calls: those of a batch
\* call that returned them, and that of each single-item call that succeeded,
\* in the order of the calls.
RECURSIVE EmbeddingsOfCalls(_, _)
EmbeddingsOfCalls(texts, calls) ==
    IF calls = <<>> THEN <<>>
    ELSE LET c == Head(calls)
             got == IF c.op = "batchEmbedContents" /\ c.arg.result = "ok"
                    THEN [k \in 1..c.arg.n |-> EmbeddingOf(texts[c.arg.from + k])]
                    ELSE IF c.op = "embedContent" /\ c.ok
                    THEN <<EmbeddingOf(texts[c.arg + 1])>>
                    ELSE <<>>
         IN  got \o EmbeddingsOfCalls(texts, Tail(calls))

\* The number of texts embedTexts sends for a file, and of its batches.
TextsOf(file) ==
    Len(embedTextsBegin(SelectSeq(ChunksOf[file], LAMBDA c : c # <<>> /\ ~IsBlank(c))))

BatchesOf(file) == (TextsOf(file) + EmbedBatchSize - 1) \div EmbedBatchSize

\* C12: after a batch call that throws, each text of the batch is tried on
\* its own, in the batch's order; the batch adds the embeddings of the texts
\* whose call succeeded, at most one per text, in that order, and nothing for
\* a text whose call failed; a failed text does not end embedTexts: the
\* batches are called in order, each after the one before it, and an upload
\* that leaves the loop has called every batch of its file.
C12_FallbackPerItem ==
    \A r \in Slots :
        LET q == rq[r]
            batches == CallsOf(q, "batchEmbedContents")
        IN  q.kind = "upload" =>
              /\ \A p \in 1..Len(q.calls) :
                    (q.calls[p].op = "batchEmbedContents" /\ ~q.calls[p].ok) =>
                        /\ RetriedSingly(q, p)
                        /\ q.calls[p].arg.n <= EmbedBatchSize
              /\ \A k \in 1..Len(batches) :
                    batches[k].arg.from = EmbedBatchSize * (k - 1)
              /\ q.pc = "embedBatch" => q.ei = EmbedBatchSize * Len(batches)
              /\ q.pc \in {"embedSingle", "embedSleep"} =>
                    q.ei = EmbedBatchSize * (Len(batches) - 1)
              /\ q.pc \in {"embedBatch", "embedSingle", "embedSleep", "upsert",
                          "unlink", "unlinked"} =>
                    q.allEmbeddings = EmbeddingsOfCalls(q.cleanedTexts, q.calls)
              /\ (q.pc \in {"upsert", "unlink", "unlinked", "done"} /\ Len(batches) > 0) =>
                    Len(batches) = BatchesOf(q.file)
              /\ (q.pc = "done" /\ Len(batches) > 0 /\ CallsOf(q, "upsert") = <<>>) =>
                    /\ q.resp.status = 200
                    /\ q.resp.body.uploaded_chunks = 0

\* An upload of eleven chunks has succeeded with ten records: its first
\* batch call threw, one of the ten texts failed on its own as well, and the
\* second batch was embedded by its batch call.
C12_Witness ==
    \E r \in Slots :
        LET q == rq[r]
            batches == CallsOf(q, "batchEmbedContents")
            singles == CallsOf(q, "embedContent")
        IN  /\ UploadDoneOk(q)
            /\ Len(batches) = 2
            /\ ~batches[1].ok /\ batches[2].ok
            /\ Len(singles) = EmbedBatchSize
            /\ Cardinality({k \in 1..Len(singles) : ~singles[k].ok}) = 1
            /\ q.resp.body.uploaded_chunks = EmbedBatchSize

\* Two requests were served at the same time.
Overlap(a, b) == a.no \in b.during \/ b.no \in a.during

\* The record was written by upload q.
RecordOf(rec, q) ==
    /\ rec.metadata.source = q.file
    /\ rec.metadata.uploaded_at = q.no
    /\ rec.metadata.session_id = q.sessionId

\* The response upload q has sent, or will send once its file is unlinked.
Answer(q) == IF q.pc = "done" THEN q.resp ELSE q.after

\* q is an upload all of whose upserts have succeeded: it has answered with
\* success, or will when its file is unlinked.
Upserted(q) ==
    /\ q.kind = "upload"
    /\ q.pc \in {"unlink", "unlinked", "done"}
    /\ Answer(q).status = 200
    /\ CallsOf(q, "upsert") # <<>>

\* o is an upload that has written its records with success, to the session
\* of the upload in slot r and while that upload was being served.
RacedWith(r, o) ==
    /\ o # r
    /\ Upserted(rq[o])
    /\ rq[o].sessionId = rq[r].sessionId
    /\ Overlap(rq[o], rq[r])

\* This step is the last upsert of the upload in slot r, which succeeds.
LastUpsertCompletes(r) == rq[r].pc = "upsert" /\ Upserted(rq'[r])

ClearedCleanly(q) ==
    /\ q.kind = "clear" /\ q.pc = "done" /\ q.resp.status = 200
    /\ ~q.delFailed

\* C14: once deleteSessionVectors has returned for a session with no failed
\* call (requests being served one at a time, and before any other request),
\* a query with the session's filter finds no record, however many records
\* the session held.
C14_DeleteLeavesNoRecord ==
    \A r \in Slots :
        ClearedCleanly(rq[r]) =>
            Query(store, ZeroVector, DeleteTopK, [session_id |-> rq[r].sessionId]) = <<>>

\* C15: a step of a request leaves the records of every session but the
\* request's own as they were: none is added, overwritten or removed.
C15_OtherSessionsUntouched ==
    [][\A r \in Slots :
          rq'[r] # rq[r] =>
              \A T \in Sessions :
                  T # rq'[r].sessionId => OnlySession(store', T) = OnlySession(store, T)]_vars

\* An upload of several chunks to session "s" has succeeded, so that the
\* index holds the id "s_1", while session "s_1" holds records of its own.
C15_Witness ==
    \E r \in Slots :
        /\ UploadDoneOk(rq[r])
        /\ rq[r].sessionId = "s"
        /\ VectorId("s", 1) \in DOMAIN store
        /\ SessionRecords(store, "s_1") # {}
        /\ \A id \in SessionRecords(store, "s_1") : id # VectorId("s", 1)

\* q is an upload that went past its checks of the request and has answered
\* without a call of index.upsert: the document was blank, gave no chunk or
\* could not be parsed (400 or 500), or no chunk of it was embedded (the
\* handler then answers 200 with no uploaded chunk).
EndedBeforeUpsert(q) ==
    /\ q.kind = "upload" /\ q.pc = "done"
    /\ q.resp.status \notin {401, 403}
    /\ q.file # NoFile /\ q.sessionId # NoSession
    /\ CallsOf(q, "upsert") = <<>>

\* The records upload q has written.
WrittenBy(st, q) == {id \in DOMAIN st : st[id].metadata.uploaded_at = q.no}

\* C16: an upload calls deleteSessionVectors before it reads its document:
\* the query of the deletion is its first remote call, made before the
\* upload reaches the document. An upload that ends without an upsert has
\* written no record, and when no call of its deletion failed its session is
\* left without records, those of an earlier upload included.
C16_DeleteBeforeValidate ==
    \A r \in Slots :
        LET q == rq[r]
        IN  /\ (q.kind = "upload"
                /\ q.pc \in {"readFile", "pdfParse", "embedBatch", "embedSingle",
                              "embedSleep", "upsert", "unlink", "unlinked"}) =>
                  (q.calls # <<>> /\ q.calls[1].op = "query")
            /\ EndedBeforeUpsert(q) =>
                  /\ q.calls # <<>> /\ q.calls[1].op = "query"
                  /\ WrittenBy(store, q) = {}
                  /\ ~q.delFailed => SessionRecords(store, q.sessionId) = {}

\* An upload of a document without text was refused with 400 after its
\* deletion removed the records of an earlier successful upload to the
\* session, which now holds none.
C16_Witness ==
    \E r \in Slots :
        LET q == rq[r]
        IN  /\ EndedBeforeUpsert(q)
            /\ q.resp.status = 400
            /\ ~q.delFailed
            /\ CallsOf(q, "deleteMany") # <<>>
            /\ hist[q.sessionId] # <<>>
            /\ SessionRecords(store, q.sessionId) = {}

====
